---- MODULE Spec2Model ----
(***************************************************************************)
(* Model of dl_plus/extractors/un1def/goodgame.py: the GoodGame stream,    *)
(* VOD and clip extractors.  A resolution is one call of _real_extract; it *)
(* is cut into steps at its fetches, so that the order of the fetches and  *)
(* the error that ends the resolution can be observed.                     *)
(***************************************************************************)
EXTENDS Integers, Sequences, FiniteSets, TLC

VARIABLES
    stream_api,   \* mock of api/getchannelstatus: channel key -> response
    player_api,   \* mock of api/player: src -> response
    m3u8_api,     \* mock of the manifest hosts: <<template, src>> -> response
    extractor,    \* which extractor the current resolution runs
    url,          \* the groups of the URL match of the current resolution
    pc,           \* position of the current resolution in _real_extract
    channel_key,  \* local of _real_extract
    src,          \* local of _real_extract
    stream_info,  \* local of _real_extract
    player_info,  \* local of _real_extract
    formats,      \* local of _real_extract
    tpl,          \* index of the loop over _M3U8_URL_TEMPLATES
    timestamp,    \* local of GoodGameVODExtractor._real_extract
    vods_info,    \* local of GoodGameVODExtractor._real_extract
    vod_info,     \* local of GoodGameVODExtractor._real_extract
    clip_id,      \* local of GoodGameClipExtractor._real_extract
    fetches,      \* the fetches the current resolution has issued, in order
    outcome,      \* what the current resolution ended in
    completed     \* the finished stream resolutions, by entry path

vars == <<stream_api, player_api, m3u8_api, extractor, url, pc, channel_key, src,
          stream_info, player_info, formats, tpl, timestamp, vods_info, vod_info,
          clip_id, fetches, outcome, completed>>

-----------------------------------------------------------------------------
(* Bounds of the model *)

\* the most variants a manifest lists
MaxVariants == 2

\* the most entries of the 'vods' list of a vods-info response
MaxVods == 2

-----------------------------------------------------------------------------
(* Values *)

\* Python's None, for values that are strings
None == "None"

\* a group of the URL match that did not take part (falsy)
NoSrc == <<>>

\* a local not bound yet
Unbound == [unbound |-> TRUE]

abc == <<"a", "b", "c">>
xyz == <<"x", "y", "z">>

Keys == {"foo", "bar"}
Tokens == {abc, xyz}

EntryPaths == {"channel", "player"}

\* d.get(k)
Get(d, k) == IF k \in DOMAIN d THEN d[k] ELSE None

\* the dict d with only the keys ks
Restrict(d, ks) == [k \in ks |-> d[k]]

-----------------------------------------------------------------------------
(* The embed HTML and the regular expression  src="[^"?]+\?([^"&#?]+)"  *)

SrcLiteral == <<"s", "r", "c", "=", "\"">>

\* <iframe src="u?TOKEN">
EmbedOf(token) == <<"<">> \o SrcLiteral \o <<"u", "?">> \o token \o <<"\"", ">">>

\* <iframe src="u?TOKEN&v">: the player URL carries a second query argument
EmbedWithArgs(token) ==
    <<"<">> \o SrcLiteral \o <<"u", "?">> \o token \o <<"&", "v", "\"", ">">>

Embeds == {EmbedOf(abc), EmbedOf(xyz), EmbedWithArgs(abc)}

\* the first position >= from of a character of stop, Len(s)+1 when none
FirstIn(s, from, stop) ==
    LET hits == {k \in from..Len(s) : s[k] \in stop}
    IN  IF hits = {} THEN Len(s) + 1 ELSE CHOOSE k \in hits : \A j \in hits : k <= j

\* the match of the regular expression that starts at position i:
\* src=" , one or more of [^"?] , ? , group: one or more of [^"&#?] , "
MatchAt(s, i) ==
    LET p == i + Len(SrcLiteral)
        q == FirstIn(s, p, {"\"", "?"})
        g == q + 1
        r == FirstIn(s, g, {"\"", "&", "#", "?"})
    IN  IF /\ p - 1 <= Len(s)
           /\ SubSeq(s, i, p - 1) = SrcLiteral
           /\ q > p /\ q <= Len(s) /\ s[q] = "?"
           /\ r > g /\ r <= Len(s) /\ s[r] = "\""
        THEN SubSeq(s, g, r - 1)
        ELSE <<>>

\* takes the head of the embed HTML in place of group 1
SearchSrcWrongGroup(embed) ==
    LET starts == {i \in 1..Len(embed) : MatchAt(embed, i) # <<>>}
    IN  IF starts = {} THEN <<>>
        ELSE SubSeq(embed, 1, Len(SrcLiteral))

\* self._search_regex(r'src="[^"?]+\?([^"&#?]+)"', embed, name='src'):
\* group 1 of the leftmost match, <<>> when the expression matches nowhere
\* (_search_regex then raises RegexNotFoundError)
SearchSrc(embed) ==
    LET starts == {i \in 1..Len(embed) : MatchAt(embed, i) # <<>>}
    IN  IF starts = {} THEN <<>>
        ELSE MatchAt(embed, CHOOSE i \in starts : \A j \in starts : i <= j)

-----------------------------------------------------------------------------
(* The mock API: the responses the endpoints can give *)

Unasked == [kind |-> "unasked"]

Statuses == {"Live", "Dead", "Unknown"}
Title == "Foo's stream"

FullStreamInfos ==
    {[status |-> s, embed |-> e, title |-> Title] : s \in Statuses, e \in Embeds}

StreamInfoKeys ==
    {{"status", "embed", "title"}, {"embed", "title"}, {"status", "title"},
     {"status", "embed"}}

\* the stream info of a later API generation: no 'status', no 'embed'
NewGenStreamInfo == [online |-> TRUE, streamKey |-> abc, title |-> Title]

StreamInfos ==
    {Restrict(d, ks) : d \in FullStreamInfos, ks \in StreamInfoKeys}
        \cup {NewGenStreamInfo}

\* api/getchannelstatus: the download fails, or the JSON is a list, a dict (its
\* values in iteration order) or anything else
StreamResponses ==
    {[kind |-> "error"], [kind |-> "list"], [kind |-> "other"],
     [kind |-> "dict", values |-> <<>>]}
        \cup {[kind |-> "dict", values |-> <<d>>] : d \in StreamInfos}
        \cup {[kind |-> "dict", values |-> <<d, d>>] : d \in {NewGenStreamInfo}}

FullPlayerInfos ==
    {[channel_key |-> k, streamer_name |-> "Foo", streamer_id |-> "1"] : k \in Keys}

PlayerInfos ==
    {Restrict(d, ks) : d \in FullPlayerInfos,
                       ks \in {{"channel_key", "streamer_name", "streamer_id"},
                               {"streamer_name", "streamer_id"},
                               {"channel_key"}}}

\* api/player: the download fails, or the JSON is a dict
PlayerResponses ==
    {[kind |-> "error"]} \cup {[kind |-> "dict", body |-> d] : d \in PlayerInfos}

Heights == 1..MaxVariants

RECURSIVE Descending(_)
\* the heights of S, highest first: the order a master playlist lists them in
Descending(S) ==
    IF S = {} THEN <<>>
    ELSE LET m == CHOOSE x \in S : \A y \in S : y <= x
         IN  <<m>> \o Descending(S \ {m})

\* a manifest host: the download or the parse fails, or a playlist of variants
ManifestResponses ==
    {[kind |-> "error"]}
        \cup {[kind |-> "playlist", variants |-> Descending(S)] : S \in SUBSET Heights}

\* the mock is a fixed function of the request: a response is decided at the
\* first request and is the same at every later one
Answers(mock, request, response) ==
    IF request \in DOMAIN mock
    THEN mock[request] \in {Unasked, response}
    ELSE TRUE

Record(mock, request, response) ==
    IF request \in DOMAIN mock THEN [mock EXCEPT ![request] = response] ELSE mock

-----------------------------------------------------------------------------
(* Errors *)

\* ExtractorError(msg, expected=...) raised by the extractor; subject is the
\* value the message is formatted with
ExtractorError(msg, subject, expected) ==
    [kind |-> "error", by |-> "extractor", msg |-> msg, subject |-> subject,
     expected |-> expected]

\* _download_json failed: the host raises, with errnote
\* 'Unable to download {description} metadata'
DownloadError(description) ==
    [kind |-> "error", by |-> "host", msg |-> "Unable to download metadata",
     subject |-> description]

\* _search_regex found no match: the host raises RegexNotFoundError
RegexNotFoundError(name) ==
    [kind |-> "error", by |-> "host", msg |-> "Unable to extract", subject |-> name]

\* an exception that is no ExtractorError
KeyError(key) == [kind |-> "crash", by |-> "python", msg |-> "KeyError", subject |-> key]

Returned(result) == [kind |-> "result", result |-> result]

Running == [kind |-> "running"]

\* the failure kinds of the resolver
IsOffline(o) == o.kind = "error" /\ o.by = "extractor" /\ o.expected /\ o.msg = "is offline"

IsNotFound(o) ==
    /\ o.kind = "error" /\ o.by = "extractor" /\ o.expected
    /\ o.msg \in {"is not found", "channel_key is not found"}

IsUpstreamError(o) ==
    /\ o.kind = "error"
    /\ \/ o.by = "host"
       \/ o.by = "extractor" /\ ~o.expected

OutcomeKind(o) ==
    IF o.kind = "result" THEN "result"
    ELSE IF o.kind = "crash" THEN "crash"
    ELSE IF o.kind = "running" THEN "running"
    ELSE IF IsOffline(o) THEN "Offline"
    ELSE IF IsNotFound(o) THEN "NotFound"
    ELSE "UpstreamError"

-----------------------------------------------------------------------------
(* GoodGameStreamExtractor *)

M3U8_URL_TEMPLATES_Swapped ==
    << [prefix |-> "https://hlss.goodgame.ru/hls/", suffix |-> ".m3u8"],
       [prefix |-> "https://hls.goodgame.ru/manifest/", suffix |-> "_master.m3u8"] >>

\* _M3U8_URL_TEMPLATES, in priority order
M3U8_URL_TEMPLATES ==
    << [prefix |-> "https://hls.goodgame.ru/manifest/", suffix |-> "_master.m3u8"],
       [prefix |-> "https://hlss.goodgame.ru/hls/", suffix |-> ".m3u8"] >>

\* m3u8_url_template.format(src=src)
FormatTemplate(m3u8_url_template, s) ==
    [prefix |-> m3u8_url_template.prefix, src |-> s,
     suffix |-> m3u8_url_template.suffix]

\* self._extract_m3u8_formats(m3u8_url, video_id=channel_key, ext='mp4',
\* fatal=False): one format per variant of the playlist, none when the
\* download or the parse fails
ExtractM3U8Formats(m3u8_url, response) ==
    IF response.kind # "playlist" THEN <<>>
    ELSE [i \in 1..Len(response.variants) |->
            [manifest_url |-> m3u8_url, height |-> response.variants[i], ext |-> "mp4"]]

RECURSIVE Insert(_, _)
Insert(f, sorted) ==
    IF sorted = <<>> THEN <<f>>
    ELSE IF f.height <= Head(sorted).height THEN <<f>> \o sorted
    ELSE <<Head(sorted)>> \o Insert(f, Tail(sorted))

\* keeps the best format only
SortFormatsBestOnly(fs) ==
    IF fs = <<>> THEN <<>>
    ELSE <<fs[CHOOSE i \in 1..Len(fs) : \A j \in 1..Len(fs) : fs[j].height <= fs[i].height]>>

RECURSIVE SortFormats(_)
\* self._sort_formats(formats): worst first, best last
SortFormats(fs) ==
    IF fs = <<>> THEN <<>> ELSE Insert(Head(fs), SortFormats(Tail(fs)))

\* a list is reported like any other unexpected response
FetchStreamInfoNoListCase(response, key) ==
    IF response.kind = "error"
    THEN [ok |-> FALSE, error |-> DownloadError("stream info")]
    ELSE IF response.kind # "dict" \/ Len(response.values) # 1
    THEN [ok |-> FALSE, error |-> ExtractorError("Unexpected response", key, FALSE)]
    ELSE [ok |-> TRUE, value |-> response.values[1]]

\* a failed download is not fatal: it gives an empty stream info
FetchStreamInfoNotFatal(response, key) ==
    IF response.kind = "error"
    THEN [ok |-> TRUE, value |-> [k \in {} |-> None]]
    ELSE IF response.kind = "list"
    THEN [ok |-> FALSE, error |-> ExtractorError("is not found", key, TRUE)]
    ELSE IF response.kind # "dict" \/ Len(response.values) # 1
    THEN [ok |-> FALSE, error |-> ExtractorError("Unexpected response", key, FALSE)]
    ELSE [ok |-> TRUE, value |-> response.values[1]]

\* _fetch_stream_info(channel_key), given the response of getchannelstatus
FetchStreamInfo(response, key) ==
    IF response.kind = "error"
    THEN [ok |-> FALSE, error |-> DownloadError("stream info")]
    ELSE IF response.kind = "list"
    THEN [ok |-> FALSE, error |-> ExtractorError("is not found", key, TRUE)]
    ELSE IF response.kind # "dict" \/ Len(response.values) # 1
    THEN [ok |-> FALSE, error |-> ExtractorError("Unexpected response", key, FALSE)]
    ELSE [ok |-> TRUE, value |-> response.values[1]]

\* _fetch_player_info(src), given the response of api/player
FetchPlayerInfo(response) ==
    IF response.kind = "error"
    THEN [ok |-> FALSE, error |-> DownloadError("player info")]
    ELSE [ok |-> TRUE, value |-> response.body]

\* every status but 'Live' is reported as offline
CheckStatusLenient(info, key) ==
    IF "status" \notin DOMAIN info
    THEN [ok |-> FALSE, error |-> ExtractorError("Stream status is not found", None, FALSE)]
    ELSE IF info["status"] # "Live"
    THEN [ok |-> FALSE, error |-> ExtractorError("is offline", key, TRUE)]
    ELSE [ok |-> TRUE]

\* 'Dead' is not recognised: it is reported as an unexpected status
CheckStatusDeadUnrecognised(info, key) ==
    IF "status" \notin DOMAIN info
    THEN [ok |-> FALSE, error |-> ExtractorError("Stream status is not found", None, FALSE)]
    ELSE IF info["status"] # "Live"
    THEN [ok |-> FALSE,
          error |-> ExtractorError("Unexpected stream status", info["status"], FALSE)]
    ELSE [ok |-> TRUE]

\* lines 91-98: the status of the stream; ok when the stream is live
CheckStatus(info, key) ==
    IF "status" \notin DOMAIN info
    THEN [ok |-> FALSE, error |-> ExtractorError("Stream status is not found", None, FALSE)]
    ELSE IF info["status"] = "Dead"
    THEN [ok |-> FALSE, error |-> ExtractorError("is offline", key, TRUE)]
    ELSE IF info["status"] # "Live"
    THEN [ok |-> FALSE,
          error |-> ExtractorError("Unexpected stream status", info["status"], FALSE)]
    ELSE [ok |-> TRUE]

\* line 85: if not channel_key
NoChannelKeyAlways(key) == TRUE

NoChannelKey(key) == key = None

\* the entry path of a URL: by channel name, or by player token
EntryPath(u) == IF u.src = NoSrc THEN "channel" ELSE "player"

NotRun == [kind |-> "notrun"]

\* the resolution ends: _real_extract returns or raises
Finish(o) ==
    /\ outcome' = o
    /\ pc' = "done"
    /\ completed' =
         IF extractor = "stream"
         THEN [completed EXCEPT ![EntryPath(url)] =
                 [url |-> url, channel_key |-> channel_key, src |-> src,
                  fetches |-> fetches', outcome |-> o]]
         ELSE completed

\* the resolution goes on at position p
Goto(p) ==
    /\ pc' = p
    /\ UNCHANGED <<outcome, completed>>

\* line 75: channel_key, src = self.dlp_match(url).group('channel_key', 'src')
StartStream(u) ==
    /\ pc \in {"idle", "done"}
    /\ completed[EntryPath(u)] = NotRun
    /\ extractor' = "stream"
    /\ url' = u
    /\ channel_key' = u.channel_key
    /\ src' = u.src
    /\ stream_info' = Unbound
    /\ player_info' = Unbound
    /\ formats' = <<>>
    /\ tpl' = 1
    /\ fetches' = <<>>
    /\ outcome' = Running
    /\ pc' = IF u.src = NoSrc THEN "stream_info_by_name" ELSE "player_info"
    /\ UNCHANGED <<stream_api, player_api, m3u8_api, timestamp, vods_info, vod_info,
                   clip_id, completed>>

\* lines 76-83: if not src: fetch the stream info, take src from its embed
StreamInfoByName ==
    /\ extractor = "stream" /\ pc = "stream_info_by_name"
    /\ UNCHANGED <<player_api, m3u8_api, extractor, url, channel_key, player_info,
                   formats, tpl, timestamp, vods_info, vod_info, clip_id>>
    /\ \E response \in StreamResponses :
         /\ Answers(stream_api, channel_key, response)
         /\ stream_api' = Record(stream_api, channel_key, response)
         /\ fetches' = Append(fetches, [endpoint |-> "getchannelstatus", id |-> channel_key])
         /\ LET got == FetchStreamInfo(response, channel_key)
            IN  IF ~got.ok
                THEN /\ UNCHANGED <<stream_info, src>>
                     /\ Finish(got.error)
                ELSE /\ stream_info' = got.value
                     /\ IF "embed" \notin DOMAIN got.value
                        THEN /\ UNCHANGED src
                             /\ Finish(ExtractorError("Stream embed HTML is not found",
                                                      None, FALSE))
                        ELSE IF SearchSrc(got.value["embed"]) = <<>>
                        THEN /\ UNCHANGED src
                             /\ Finish(RegexNotFoundError("src"))
                        ELSE /\ src' = SearchSrc(got.value["embed"])
                             /\ Goto("player_info")

\* lines 84-89: fetch the player info; if not channel_key: take it from there
PlayerInfo ==
    /\ extractor = "stream" /\ pc = "player_info"
    /\ UNCHANGED <<stream_api, m3u8_api, extractor, url, src, stream_info,
                   formats, tpl, timestamp, vods_info, vod_info, clip_id>>
    /\ \E response \in PlayerResponses :
         /\ Answers(player_api, src, response)
         /\ player_api' = Record(player_api, src, response)
         /\ fetches' = Append(fetches, [endpoint |-> "player", id |-> src])
         /\ LET got == FetchPlayerInfo(response)
            IN  IF ~got.ok
                THEN /\ UNCHANGED <<player_info, channel_key>>
                     /\ Finish(got.error)
                ELSE /\ player_info' = got.value
                     /\ IF ~NoChannelKey(channel_key)
                        THEN /\ UNCHANGED channel_key
                             /\ Goto("status")
                        ELSE IF "channel_key" \notin DOMAIN got.value
                        THEN /\ UNCHANGED channel_key
                             /\ Finish(ExtractorError("channel_key is not found", None, TRUE))
                        ELSE /\ channel_key' = got.value["channel_key"]
                             /\ Goto("stream_info_by_key")

\* line 90: stream_info = self._fetch_stream_info(channel_key)
StreamInfoByKey ==
    /\ extractor = "stream" /\ pc = "stream_info_by_key"
    /\ UNCHANGED <<player_api, m3u8_api, extractor, url, channel_key, src,
                   player_info, formats, tpl, timestamp, vods_info, vod_info, clip_id>>
    /\ \E response \in StreamResponses :
         /\ Answers(stream_api, channel_key, response)
         /\ stream_api' = Record(stream_api, channel_key, response)
         /\ fetches' = Append(fetches, [endpoint |-> "getchannelstatus", id |-> channel_key])
         /\ LET got == FetchStreamInfo(response, channel_key)
            IN  IF ~got.ok
                THEN /\ UNCHANGED stream_info
                     /\ Finish(got.error)
                ELSE /\ stream_info' = got.value
                     /\ Goto("status")

\* lines 91-98: the status of the stream
StreamStatus ==
    /\ extractor = "stream" /\ pc = "status"
    /\ UNCHANGED <<stream_api, player_api, m3u8_api, extractor, url, channel_key,
                   src, stream_info, player_info, formats, tpl, timestamp,
                   vods_info, vod_info, clip_id, fetches>>
    /\ IF ~CheckStatus(stream_info, channel_key).ok
       THEN Finish(CheckStatus(stream_info, channel_key).error)
       ELSE Goto("m3u8")

\* lines 99-106: one turn of the loop over _M3U8_URL_TEMPLATES, and its else
M3U8Template ==
    /\ extractor = "stream" /\ pc = "m3u8"
    /\ UNCHANGED <<stream_api, player_api, extractor, url, channel_key, src,
                   stream_info, player_info, timestamp, vods_info, vod_info, clip_id>>
    /\ IF tpl > Len(M3U8_URL_TEMPLATES)
       THEN /\ UNCHANGED <<m3u8_api, formats, tpl, fetches>>
            /\ Finish(ExtractorError("failed to fetch/parse m3u8", None, FALSE))
       ELSE \E response \in ManifestResponses :
              LET m3u8_url == FormatTemplate(M3U8_URL_TEMPLATES[tpl], src)
              IN  /\ Answers(m3u8_api, <<tpl, src>>, response)
                  /\ m3u8_api' = Record(m3u8_api, <<tpl, src>>, response)
                  /\ fetches' = Append(fetches, [endpoint |-> "m3u8", id |-> m3u8_url])
                  /\ formats' = ExtractM3U8Formats(m3u8_url, response)
                  /\ IF formats' # <<>>
                     THEN /\ UNCHANGED tpl
                          /\ Goto("return")
                     ELSE /\ tpl' = tpl + 1
                          /\ Goto("m3u8")

\* the id is taken from the player info
StreamResultIdFromPlayer ==
    [id |-> Get(player_info, "channel_key"),
     title |-> stream_info["title"],
     description |-> Get(stream_info, "description"),
     creator |-> Get(player_info, "streamer_name"),
     uploader |-> Get(player_info, "streamer_name"),
     uploader_id |-> Get(player_info, "streamer_id"),
     thumbnail |-> Get(stream_info, "img"),
     is_live |-> TRUE,
     formats |-> SortFormats(formats)]

\* lines 107-118: sort the formats and return the info dict
StreamResult ==
    [id |-> channel_key,
     title |-> stream_info["title"],
     description |-> Get(stream_info, "description"),
     creator |-> Get(player_info, "streamer_name"),
     uploader |-> Get(player_info, "streamer_name"),
     uploader_id |-> Get(player_info, "streamer_id"),
     thumbnail |-> Get(stream_info, "img"),
     is_live |-> TRUE,
     formats |-> SortFormats(formats)]

Return ==
    /\ extractor = "stream" /\ pc = "return"
    /\ UNCHANGED <<stream_api, player_api, m3u8_api, extractor, url, channel_key,
                   src, stream_info, player_info, tpl, timestamp, vods_info, vod_info,
                   clip_id, fetches>>
    /\ formats' = SortFormats(formats)
    /\ IF "title" \notin DOMAIN stream_info
       THEN Finish(KeyError("title"))
       ELSE Finish(Returned(StreamResult))

-----------------------------------------------------------------------------
(* GoodGameVODExtractor and GoodGameClipExtractor *)

STORAGE_BASE_URL == "https://storage2.goodgame.ru/"

\* _THUMBNAIL_KEYS, in order of preference
THUMBNAIL_KEYS == <<"jpgSmall", "jpgFull", "png">>

\* a URL string: base is "" for a relative URL; both are "" for the empty string
AbsoluteUrl(base, path) == [base |-> base, path |-> path]
RelativeUrl(path) == [base |-> "", path |-> path]
EmptyUrl == [base |-> "", path |-> ""]

\* url.startswith('http')
StartsWithHttp(u) == u.base # ""

\* urljoin(base, url)
UrlJoin(base, u) == IF StartsWithHttp(u) THEN u ELSE AbsoluteUrl(base, u.path)

Timestamps == {"2020-01-01T00:00:00Z", "2020-01-02T00:00:00Z"}

PreviewPaths ==
    {[jpgSmall |-> RelativeUrl("small.jpg")],
     [jpgFull |-> AbsoluteUrl("https://cdn/", "full.jpg"), png |-> EmptyUrl]}

VodInfos ==
    {[moddate |-> t, mp4path |-> RelativeUrl("vod.mp4"), previewpath |-> pp] :
        t \in Timestamps, pp \in PreviewPaths}
      \cup {[moddate |-> t, mp4path |-> RelativeUrl("vod.mp4")] : t \in Timestamps}
      \cup {[moddate |-> t] : t \in Timestamps}

RECURSIVE SeqsUpTo(_, _)
\* the sequences over S of length at most n
SeqsUpTo(S, n) ==
    IF n = 0 THEN {<<>>}
    ELSE LET shorter == SeqsUpTo(S, n - 1)
         IN  shorter \cup {Append(q, x) : q \in shorter, x \in S}

\* storage2 api/json/channel/video: the download fails, or the JSON is a dict
VodsResponses ==
    {[kind |-> "error"], [kind |-> "dict", body |-> [count |-> "0"]]}
        \cup {[kind |-> "dict", body |-> [vods |-> vs]] : vs \in SeqsUpTo(VodInfos, MaxVods)}

\* the for/else over vods_info['vods']: the index of the first entry whose
\* moddate is the timestamp, 0 when the loop ends without a break
FindVodSkipFirst(vods, ts) ==
    LET hits == {i \in 2..Len(vods) : vods[i]["moddate"] = ts}
    IN  IF hits = {} THEN 0 ELSE CHOOSE i \in hits : \A j \in hits : i <= j

FindVod(vods, ts) ==
    LET hits == {i \in 1..Len(vods) : vods[i]["moddate"] = ts}
    IN  IF hits = {} THEN 0 ELSE CHOOSE i \in hits : \A j \in hits : i <= j

RECURSIVE Thumbnails(_, _)
\* lines 141-149: one thumbnail per key of _THUMBNAIL_KEYS whose URL is not
\* empty, from preference (index, from 0) n on
Thumbnails(previewpath, n) ==
    IF n >= Len(THUMBNAIL_KEYS) THEN <<>>
    ELSE LET key == THUMBNAIL_KEYS[n + 1]
             rest == Thumbnails(previewpath, n + 1)
         IN  IF key \notin DOMAIN previewpath \/ previewpath[key] = EmptyUrl
             THEN rest
             ELSE <<[url |-> UrlJoin(STORAGE_BASE_URL, previewpath[key]),
                     preference |-> n]>> \o rest

EmptyDict == [k \in {} |-> None]

\* line 130: src, timestamp = self.dlp_match(url).group('src', 'timestamp')
StartVod(s, ts) ==
    /\ pc \in {"idle", "done"}
    /\ extractor' = "vod"
    /\ url' = [src |-> s, timestamp |-> ts]
    /\ src' = s
    /\ timestamp' = ts
    /\ channel_key' = None
    /\ stream_info' = Unbound
    /\ player_info' = Unbound
    /\ vods_info' = Unbound
    /\ vod_info' = Unbound
    /\ clip_id' = None
    /\ formats' = <<>>
    /\ tpl' = 1
    /\ fetches' = <<>>
    /\ outcome' = Running
    /\ pc' = "vods_info"
    /\ UNCHANGED <<stream_api, player_api, m3u8_api, completed>>

\* lines 131-139: fetch the vods info, find the vod of the timestamp
VodsInfo ==
    /\ extractor = "vod" /\ pc = "vods_info"
    /\ UNCHANGED <<stream_api, player_api, m3u8_api, extractor, url, channel_key,
                   src, stream_info, player_info, formats, tpl, timestamp, clip_id>>
    /\ \E response \in VodsResponses :
         /\ fetches' = Append(fetches, [endpoint |-> "channel/video", id |-> src])
         /\ vods_info' = IF response.kind = "error" THEN Unbound ELSE response.body
         /\ IF response.kind = "error"
            THEN /\ UNCHANGED vod_info
                 /\ Finish(DownloadError("vods info"))
            ELSE IF "vods" \notin DOMAIN response.body
            THEN /\ UNCHANGED vod_info
                 /\ Finish(KeyError("vods"))
            ELSE LET vods == response.body["vods"]
                     found == FindVod(vods, timestamp)
                 IN  IF found = 0
                     THEN /\ vod_info' = IF vods = <<>> THEN Unbound ELSE vods[Len(vods)]
                          /\ Finish(ExtractorError("vod info not found", None, FALSE))
                     ELSE /\ vod_info' = vods[found]
                          /\ Goto("vod_player_info")

\* lines 140-161: fetch the player info, build the thumbnails, return
VodResult ==
    [id |-> [who |-> IF Get(player_info, "channel_key") # None
                     THEN <<Get(player_info, "channel_key")>> ELSE src,
             timestamp |-> timestamp],
     title |-> timestamp,
     display_id |-> Get(player_info, "channel_key"),
     creator |-> Get(player_info, "streamer_name"),
     uploader |-> Get(player_info, "streamer_name"),
     uploader_id |-> Get(player_info, "streamer_id"),
     thumbnails |-> Thumbnails(IF "previewpath" \in DOMAIN vod_info
                               THEN vod_info["previewpath"] ELSE EmptyDict, 0),
     is_live |-> FALSE,
     url |-> UrlJoin(STORAGE_BASE_URL, vod_info["mp4path"])]

VodPlayerInfo ==
    /\ extractor = "vod" /\ pc = "vod_player_info"
    /\ UNCHANGED <<stream_api, player_api, m3u8_api, extractor, url, channel_key,
                   src, stream_info, vods_info, vod_info, formats, tpl, timestamp,
                   clip_id>>
    /\ \E response \in PlayerResponses :
         /\ fetches' = Append(fetches, [endpoint |-> "player", id |-> src])
         /\ LET got == FetchPlayerInfo(response)
            IN  IF ~got.ok
                THEN /\ UNCHANGED player_info
                     /\ Finish(got.error)
                ELSE /\ player_info' = got.value
                     /\ IF "mp4path" \notin DOMAIN vod_info
                        THEN Finish(KeyError("mp4path"))
                        ELSE Finish(Returned(VodResult'))

ClipIds == {"1", "2"}

FullClipInfo ==
    [title |-> "Clip", streamer |-> "Foo", author |-> "Bar",
     thumbnail |-> "t.jpg", views |-> "7", created |-> "1577836800",
     src |-> "https://clips/clip.mp4"]

ClipInfos ==
    {Restrict(FullClipInfo, ks) :
        ks \in {DOMAIN FullClipInfo, DOMAIN FullClipInfo \ {"title"},
                {"src"}, DOMAIN FullClipInfo \ {"src"}}}

\* goodgame.ru/ajax/clip/ID: the download fails, or the JSON is a dict
ClipResponses ==
    {[kind |-> "error"]} \cup {[kind |-> "dict", body |-> d] : d \in ClipInfos}

\* line 170: clip_id = self._match_id(url)
StartClip(id) ==
    /\ pc \in {"idle", "done"}
    /\ extractor' = "clip"
    /\ url' = [id |-> id]
    /\ clip_id' = id
    /\ src' = NoSrc
    /\ timestamp' = None
    /\ channel_key' = None
    /\ stream_info' = Unbound
    /\ player_info' = Unbound
    /\ vods_info' = Unbound
    /\ vod_info' = Unbound
    /\ formats' = <<>>
    /\ tpl' = 1
    /\ fetches' = <<>>
    /\ outcome' = Running
    /\ pc' = "clip_info"
    /\ UNCHANGED <<stream_api, player_api, m3u8_api, completed>>

ClipResult(clip_info) ==
    [id |-> clip_id,
     title |-> IF "title" \in DOMAIN clip_info THEN clip_info["title"] ELSE clip_id,
     creator |-> Get(clip_info, "streamer"),
     uploader |-> Get(clip_info, "author"),
     thumbnail |-> Get(clip_info, "thumbnail"),
     view_count |-> Get(clip_info, "views"),
     timestamp |-> Get(clip_info, "created"),
     is_live |-> FALSE,
     url |-> clip_info["src"]]

\* lines 171-185: fetch the clip info, return
ClipInfo ==
    /\ extractor = "clip" /\ pc = "clip_info"
    /\ UNCHANGED <<stream_api, player_api, m3u8_api, extractor, url, channel_key,
                   src, stream_info, player_info, vods_info, vod_info, formats, tpl,
                   timestamp, clip_id>>
    /\ \E response \in ClipResponses :
         /\ fetches' = Append(fetches, [endpoint |-> "ajax/clip", id |-> clip_id])
         /\ IF response.kind = "error"
            THEN Finish(DownloadError("clip info"))
            ELSE IF "src" \notin DOMAIN response.body
            THEN Finish(KeyError("src"))
            ELSE Finish(Returned(ClipResult(response.body)))

-----------------------------------------------------------------------------

StreamUrls ==
    {[channel_key |-> k, src |-> NoSrc] : k \in Keys}
        \cup {[channel_key |-> None, src |-> s] : s \in Tokens}

Init ==
    /\ stream_api = [k \in Keys |-> Unasked]
    /\ player_api = [s \in Tokens |-> Unasked]
    /\ m3u8_api = [r \in (1..Len(M3U8_URL_TEMPLATES)) \X Tokens |-> Unasked]
    /\ extractor = "none"
    /\ url = [channel_key |-> None, src |-> NoSrc]
    /\ pc = "idle"
    /\ channel_key = None
    /\ src = NoSrc
    /\ stream_info = Unbound
    /\ player_info = Unbound
    /\ formats = <<>>
    /\ tpl = 1
    /\ timestamp = None
    /\ vods_info = Unbound
    /\ vod_info = Unbound
    /\ clip_id = None
    /\ fetches = <<>>
    /\ outcome = Running
    /\ completed = [p \in EntryPaths |-> NotRun]

Next ==
    \/ \E u \in StreamUrls : StartStream(u)
    \/ StreamInfoByName
    \/ PlayerInfo
    \/ StreamInfoByKey
    \/ StreamStatus
    \/ M3U8Template
    \/ Return

Spec == Init /\ [][Next]_vars

NextMedia ==
    \/ \E s \in Tokens, ts \in Timestamps : StartVod(s, ts)
    \/ VodsInfo
    \/ VodPlayerInfo
    \/ \E id \in ClipIds : StartClip(id)
    \/ ClipInfo

SpecMedia == Init /\ [][NextMedia]_vars

-----------------------------------------------------------------------------
(* What the claims speak of *)

Done == pc = "done"

StreamRun == extractor = "stream"

IsM3U8(f) == f.endpoint = "m3u8"

M3U8Fetches(fs) == SelectSeq(fs, IsM3U8)

NoManifestFetch(fs) == \A i \in 1..Len(fs) : ~IsM3U8(fs[i])

Fetched(fs, endpoint) == \E i \in 1..Len(fs) : fs[i].endpoint = endpoint

Count(fs, endpoint) == Cardinality({i \in 1..Len(fs) : fs[i].endpoint = endpoint})

StatusOf(info) == Get(info, "status")

HasStreamInfo == "unbound" \notin DOMAIN stream_info

HasPlayerInfo == "unbound" \notin DOMAIN player_info

\* the two manifest URLs of a src, as the templates of the source spell them
FirstPriorityUrl(s) ==
    [prefix |-> "https://hls.goodgame.ru/manifest/", src |-> s, suffix |-> "_master.m3u8"]

SecondPriorityUrl(s) ==
    [prefix |-> "https://hlss.goodgame.ru/hls/", src |-> s, suffix |-> ".m3u8"]

PriorityUrls(s) == <<FirstPriorityUrl(s), SecondPriorityUrl(s)>>

\* the index of the template a manifest URL was built from
TemplateOf(m3u8_url) ==
    CHOOSE t \in 1..Len(M3U8_URL_TEMPLATES) :
        M3U8_URL_TEMPLATES[t].prefix = m3u8_url.prefix

\* the formats the mock gives for a manifest fetch
Yield(f) == ExtractM3U8Formats(f.id, m3u8_api[<<TemplateOf(f.id), f.id.src>>])

\* the same formats, in any order (the heights of a manifest are distinct)
SameFormats(a, b) ==
    /\ Len(a) = Len(b)
    /\ {a[i] : i \in 1..Len(a)} = {b[i] : i \in 1..Len(b)}

IsPrefix(a, b) == Len(a) <= Len(b) /\ \A i \in 1..Len(a) : a[i] = b[i]

IsError(o, msg) == o.kind = "error" /\ o.msg = msg

\* what a fetch is of: the endpoint, for a manifest its host and directory
Tag(f) == IF IsM3U8(f) THEN f.id.prefix ELSE f.endpoint

Tags(fs) == [i \in 1..Len(fs) |-> Tag(fs[i])]

ManifestHosts == <<"https://hls.goodgame.ru/manifest/", "https://hlss.goodgame.ru/hls/">>

\* a fetch of the stream info or of the player info whose download failed
DownloadFailed(f) ==
    \/ f.endpoint = "getchannelstatus" /\ stream_api[f.id].kind = "error"
    \/ f.endpoint = "player" /\ player_api[f.id].kind = "error"

DescriptionOf(f) == IF f.endpoint = "player" THEN "player info" ELSE "stream info"

-----------------------------------------------------------------------------
(* The claims *)

\* C1 as stated: whenever the stream info's status is 'Dead', on either entry path, the
\* resolution ends with the expected 'is offline' error and has issued no
\* manifest fetch.
C1_DeadEndsOffline ==
    (StreamRun /\ Done /\ HasStreamInfo /\ StatusOf(stream_info) = "Dead")
        => (IsOffline(outcome) /\ NoManifestFetch(fetches))

\* the errors that end a resolution by channel name before the status of its
\* stream info is examined: of the embed lookup and of the player-info fetch
BeforeStatusErrors ==
    {ExtractorError("Stream embed HTML is not found", None, FALSE),
     RegexNotFoundError("src"),
     DownloadError("player info")}

\* C1 amended: whenever the stream info's status is 'Dead', on either entry
\* path, no manifest fetch is ever issued, and the resolution ends with the
\* expected 'is offline' error once it examines the status: always by player
\* token, and by channel name unless the embed lookup or the player-info fetch
\* ended it before with their own error.
C1_DeadNeverFetchesManifest ==
    (StreamRun /\ HasStreamInfo /\ StatusOf(stream_info) = "Dead") =>
        /\ NoManifestFetch(fetches)
        /\ pc \notin {"m3u8", "return"}
        /\ (Done /\ (EntryPath(url) = "player" \/ HasPlayerInfo)) =>
             /\ outcome = ExtractorError("is offline", channel_key, TRUE)
             /\ IsOffline(outcome)
        /\ (Done /\ ~IsOffline(outcome)) =>
             /\ EntryPath(url) = "channel"
             /\ ~HasPlayerInfo
             /\ outcome \in BeforeStatusErrors

C1_Witness ==
    /\ StreamRun /\ Done /\ EntryPath(url) = "player"
    /\ StatusOf(stream_info) = "Dead"
    /\ IsOffline(outcome)
    /\ Tags(fetches) = <<"player", "getchannelstatus">>

\* C2: the 'failed to fetch/parse m3u8' error is raised only after both
\* templates were fetched, hls.goodgame.ru/manifest first and hlss.goodgame.ru/hls
\* second, and each yielded no formats; a resolution whose first manifest fetch
\* yields no formats fetches the second template before it ends.
C2_FallbackBeforeFailing ==
    StreamRun =>
        LET ms == M3U8Fetches(fetches)
        IN  /\ IsError(outcome, "failed to fetch/parse m3u8") =>
                 /\ Len(ms) = Len(PriorityUrls(src))
                 /\ \A i \in 1..Len(ms) :
                        ms[i].id = PriorityUrls(src)[i] /\ Yield(ms[i]) = <<>>
            /\ (Done /\ Len(ms) >= 1 /\ Yield(ms[1]) = <<>>) =>
                 (Len(ms) = 2 /\ ms[2].id = SecondPriorityUrl(src))
            /\ Len(ms) >= 1 => ms[1].id = FirstPriorityUrl(src)

C2_Witness ==
    /\ StreamRun /\ IsError(outcome, "failed to fetch/parse m3u8")
    /\ Len(M3U8Fetches(fetches)) = 2

\* C3: a returned result carries exactly the formats of the last manifest
\* fetched, which is the first template in priority order that yields formats:
\* they are non-empty, every template fetched before it yielded none, and no
\* fetch follows it.
C3_FirstWorkingTemplate ==
    (StreamRun /\ outcome.kind = "result") =>
        LET ms == M3U8Fetches(fetches)
            n == Len(ms)
        IN  /\ n >= 1
            /\ IsM3U8(fetches[Len(fetches)])
            /\ \A i \in 1..n : ms[i].id = PriorityUrls(src)[i]
            /\ \A i \in 1..(n - 1) : Yield(ms[i]) = <<>>
            /\ Yield(ms[n]) # <<>>
            /\ outcome.result.formats # <<>>
            /\ SameFormats(outcome.result.formats, Yield(ms[n]))
            /\ \A i \in 1..Len(outcome.result.formats) :
                   outcome.result.formats[i].manifest_url = ms[n].id

C3_Witness ==
    /\ StreamRun /\ outcome.kind = "result"
    /\ Len(M3U8Fetches(fetches)) = 2
    /\ Len(outcome.result.formats) = 2

\* C4: when the stream info has no 'status' or a status other than 'Live' and
\* 'Dead', the resolution issues no manifest fetch and ends with an
\* UpstreamError (an ExtractorError of the extractor that is not expected, or
\* the host's error of a failed download or match): never with Offline or
\* NotFound, never with a result.
C4_UnexpectedStatusIsUpstreamError ==
    (StreamRun /\ HasStreamInfo /\ StatusOf(stream_info) \notin {"Live", "Dead"}) =>
        /\ NoManifestFetch(fetches)
        /\ pc \notin {"m3u8", "return"}
        /\ Done =>
             /\ IsUpstreamError(outcome)
             /\ ~IsOffline(outcome) /\ ~IsNotFound(outcome)
             /\ outcome.by = "extractor" => ~outcome.expected

C4_Witness ==
    /\ StreamRun /\ Done /\ HasStreamInfo
    /\ StatusOf(stream_info) = "Unknown"
    /\ EntryPath(url) = "player"
    /\ outcome = ExtractorError("Unexpected stream status", "Unknown", FALSE)

\* the resolution by channel name k and the resolution by player token s have
\* both ended, the stream info of k embeds s and the player info of s reports k
EquivalentReferences ==
    /\ completed["channel"] # NotRun /\ completed["player"] # NotRun
    /\ LET k == completed["channel"].url.channel_key
           s == completed["player"].url.src
       IN  /\ stream_api[k].kind = "dict"
           /\ Len(stream_api[k].values) = 1
           /\ "embed" \in DOMAIN stream_api[k].values[1]
           /\ stream_api[k].values[1]["embed"] = EmbedOf(s)
           /\ player_api[s].kind = "dict"
           /\ "channel_key" \in DOMAIN player_api[s].body
           /\ player_api[s].body["channel_key"] = k

\* C5: against the same mock API, the resolution by player token s and the
\* resolution by channel name k end in the same kind of outcome, with the same
\* channel key k and the same token s, fetch the same manifest URLs, and a
\* result of either has the id k.
C5_SameChannelIdentity ==
    EquivalentReferences =>
        LET c == completed["channel"]
            p == completed["player"]
        IN  /\ OutcomeKind(c.outcome) = OutcomeKind(p.outcome)
            /\ c.channel_key = c.url.channel_key /\ p.channel_key = c.url.channel_key
            /\ c.src = p.url.src /\ p.src = p.url.src
            /\ M3U8Fetches(c.fetches) = M3U8Fetches(p.fetches)
            /\ c.outcome.kind = "result" =>
                 /\ c.outcome.result.id = c.url.channel_key
                 /\ p.outcome.result.id = c.url.channel_key

C5_Witness ==
    /\ EquivalentReferences
    /\ completed["channel"].outcome.kind = "result"
    /\ completed["player"].outcome.kind = "result"

\* C6: a getchannelstatus response that is a list ends the resolution at once
\* with the expected '... is not found' error, on either entry path; so does,
\* on the player-token path, a player info without 'channel_key'; no manifest
\* is fetched in either case; a response that is no dict, or a dict whose size
\* is not 1, ends it with the unexpected 'Unexpected response' error.
C6_NotFound ==
    StreamRun =>
        /\ \A i \in 1..Len(fetches) :
             fetches[i].endpoint = "getchannelstatus" =>
                LET response == stream_api[fetches[i].id]
                IN  /\ response.kind = "list" =>
                         /\ i = Len(fetches) /\ Done
                         /\ outcome = ExtractorError("is not found", fetches[i].id, TRUE)
                         /\ IsNotFound(outcome)
                    /\ (response.kind = "other"
                          \/ (response.kind = "dict" /\ Len(response.values) # 1)) =>
                         /\ i = Len(fetches) /\ Done
                         /\ outcome = ExtractorError("Unexpected response", fetches[i].id, FALSE)
                         /\ IsUpstreamError(outcome) /\ ~IsNotFound(outcome)
        /\ (EntryPath(url) = "player" /\ HasPlayerInfo
              /\ "channel_key" \notin DOMAIN player_info) =>
             /\ Done /\ IsNotFound(outcome)
             /\ outcome = ExtractorError("channel_key is not found", None, TRUE)
             /\ Tags(fetches) = <<"player">>
        /\ (Done /\ IsNotFound(outcome)) => NoManifestFetch(fetches)

C6_Witness ==
    /\ StreamRun /\ Done /\ EntryPath(url) = "player"
    /\ Len(fetches) = 2
    /\ stream_api[channel_key].kind = "list"
    /\ IsNotFound(outcome)

\* the stream info of C7 in the vocabulary of this extractor
FooStreamInfo == [status |-> "Live", embed |-> EmbedOf(abc), title |-> "Foo's stream"]

FooByName ==
    /\ StreamRun /\ Done
    /\ url = [channel_key |-> "foo", src |-> NoSrc]

\* C7 as stated: for username "foo" whose stream info is {online: true,
\* streamKey: "abc", title: "Foo's stream"} the resolution returns {id: "foo",
\* title: "Foo's stream", is_live: true, formats: from the manifest of "abc"}
\* (or fails only because no manifest of "abc" yields formats).
C7_AsStated ==
    (FooByName /\ stream_info = NewGenStreamInfo) =>
        \/ /\ outcome.kind = "result"
           /\ outcome.result.id = "foo"
           /\ outcome.result.title = "Foo's stream"
           /\ outcome.result.is_live
        \/ IsError(outcome, "failed to fetch/parse m3u8")

\* C7 amended: for username "foo" whose stream info is {status: 'Live', embed:
\* HTML whose player src is "abc", title: "Foo's stream"}, once the player info
\* is fetched and a manifest built from "abc" yields formats, the resolution
\* returns {id: "foo", title: "Foo's stream", is_live: true, formats: the
\* formats of that manifest}; the stream info is the first fetch and is by "foo".
C7_ByNameFromStreamInfo ==
    (FooByName /\ stream_info = FooStreamInfo) =>
        /\ fetches[1] = [endpoint |-> "getchannelstatus", id |-> "foo"]
        /\ src = abc
        /\ (HasPlayerInfo
              /\ \E t \in 1..Len(M3U8_URL_TEMPLATES) :
                    ExtractM3U8Formats(PriorityUrls(abc)[t], m3u8_api[<<t, abc>>]) # <<>>) =>
             LET ms == M3U8Fetches(fetches)
                 last == ms[Len(ms)]
             IN  /\ outcome.kind = "result"
                 /\ outcome.result.id = "foo"
                 /\ outcome.result.title = "Foo's stream"
                 /\ outcome.result.is_live
                 /\ last.id \in {FirstPriorityUrl(abc), SecondPriorityUrl(abc)}
                 /\ outcome.result.formats = SortFormats(Yield(last))
                 /\ outcome.result.formats # <<>>

C7_Witness ==
    /\ FooByName /\ stream_info = FooStreamInfo
    /\ outcome.kind = "result"
    /\ outcome.result.id = "foo"
    /\ Len(outcome.result.formats) = 2

\* C9: no fetch is repeated (the stream info and the player info are fetched at
\* most once, no manifest URL twice); a failed download of the stream info or
\* of the player info is the last fetch and ends the resolution with its
\* error; a fetch follows a failed one only as the next manifest template
\* after a manifest that yielded no formats.
C9_NoRetry ==
    StreamRun =>
        /\ Count(fetches, "getchannelstatus") <= 1
        /\ Count(fetches, "player") <= 1
        /\ \A i, j \in 1..Len(fetches) :
             (i < j /\ IsM3U8(fetches[i]) /\ IsM3U8(fetches[j])) =>
                fetches[i].id # fetches[j].id
        /\ \A i \in 1..Len(fetches) :
             (~IsM3U8(fetches[i]) /\ DownloadFailed(fetches[i])) =>
                /\ i = Len(fetches)
                /\ Done
                /\ outcome = DownloadError(DescriptionOf(fetches[i]))
        /\ \A i \in 1..(Len(fetches) - 1) :
             (IsM3U8(fetches[i]) /\ Yield(fetches[i]) = <<>>) =>
                /\ IsM3U8(fetches[i + 1])
                /\ TemplateOf(fetches[i + 1].id) = TemplateOf(fetches[i].id) + 1

C9_Witness ==
    /\ StreamRun /\ Done
    /\ Tags(fetches) = <<"getchannelstatus", "player">>
    /\ outcome = DownloadError("player info")

\* the order of the fetches of an entry path
FetchOrder(path) ==
    (IF path = "channel" THEN <<"getchannelstatus", "player">>
                         ELSE <<"player", "getchannelstatus">>) \o ManifestHosts

\* the status of the stream info has been examined
StatusExamined ==
    \/ pc \in {"m3u8", "return"}
    \/ Done /\ \/ outcome.kind \in {"result", "crash"}
               \/ outcome.kind = "error" /\ outcome.msg \in
                    {"Stream status is not found", "is offline",
                     "Unexpected stream status", "failed to fetch/parse m3u8"}

\* C10: the fetches of a resolution are a prefix of [stream info, player info,
\* template 1, template 2] by channel name and of [player info, stream info,
\* template 1, template 2] by player token; a result comes only after both
\* infos were fetched and the status was 'Live'; by channel name the player
\* info is fetched before the status is examined, for a 'Dead' channel too.
C10_FetchOrder ==
    StreamRun =>
        /\ IsPrefix(Tags(fetches), FetchOrder(EntryPath(url)))
        /\ outcome.kind = "result" =>
             /\ Fetched(fetches, "getchannelstatus") /\ Fetched(fetches, "player")
             /\ StatusOf(stream_info) = "Live"
        /\ (pc = "status" \/ StatusExamined) =>
             /\ Fetched(fetches, "getchannelstatus") /\ Fetched(fetches, "player")
        /\ (EntryPath(url) = "channel" /\ IsOffline(outcome)) =>
             Tags(fetches) = <<"getchannelstatus", "player">>

C10_Witness ==
    /\ StreamRun /\ Done /\ EntryPath(url) = "channel"
    /\ IsOffline(outcome)
    /\ StatusOf(stream_info) = "Dead"
    /\ Len(fetches) = 2

-----------------------------------------------------------------------------
(* The claim about the VOD and the clip extractor, under SpecMedia *)

VodMatches ==
    /\ "vods" \in DOMAIN vods_info
    /\ \E i \in 1..Len(vods_info["vods"]) : vods_info["vods"][i]["moddate"] = timestamp

\* C8 as stated: a VOD resolution and a clip resolution each issue exactly one
\* fetch.
C8_AsStated ==
    (extractor \in {"vod", "clip"} /\ Done) => Len(fetches) = 1

\* C8 amended: a clip resolution issues exactly one fetch; a VOD resolution
\* issues the vods-info fetch and, only when an entry of the vods list has the
\* timestamp as its 'moddate', one player-info fetch after it; a VOD resolution
\* whose timestamp matches no 'moddate' fails with 'vod info not found' after
\* the single fetch.
C8_MediaFetches ==
    /\ (extractor = "clip" /\ Done) => Tags(fetches) = <<"ajax/clip">>
    /\ (extractor = "vod" /\ pc # "vods_info") =>
         /\ IsPrefix(Tags(fetches), <<"channel/video", "player">>)
         /\ Len(fetches) >= 1
         /\ ("vods" \in DOMAIN vods_info /\ ~VodMatches) =>
              /\ Done
              /\ Len(fetches) = 1
              /\ outcome = ExtractorError("vod info not found", None, FALSE)
         /\ (VodMatches /\ Done) => Len(fetches) = 2
         /\ Len(fetches) = 2 => VodMatches

C8_Witness ==
    /\ extractor = "vod" /\ Done
    /\ "vods" \in DOMAIN vods_info
    /\ Len(vods_info["vods"]) = 2
    /\ ~VodMatches
    /\ IsError(outcome, "vod info not found")

====
